---- MODULE Spec2Model ----
(***************************************************************************)
(* The request dispatch pipeline of cheetah (src/unnamed/part_001):        *)
(* cheetah.use, cheetah.fetch and cheetah.#handle, from the raw request    *)
(* to the response: cache lookup, route match, preflight, beforeParsing    *)
(* hooks, validation, context, beforeHandling hooks, handler chain,        *)
(* beforeResponding hooks, response construction, cache store and the      *)
(* catch block of fetch.                                                   *)
(*                                                                         *)
(* Strings whose content the code inspects (paths, plugin prefixes,        *)
(* bodies, content-length values) are sequences of one-character strings.  *)
(* What a hook, a handler, the validator, the cache or a body read does is *)
(* an input: it is drawn with \E in the action that runs it.               *)
(***************************************************************************)
EXTENDS Integers, Sequences, FiniteSets, TLC

(* ------------------------------------------------------------------ *)
(* Bounds of the model                                                  *)
(* ------------------------------------------------------------------ *)

\* use() calls made while the application is configured
MaxUse == 2
\* res.* / req.* calls the callbacks of one dispatch make in all (Spec)
MaxCalls == 1
\* the same, in the specification of the response state (SpecRes)
MaxResCalls == 2
\* cache.put calls still pending when the next request is dispatched
MaxPending == 1
\* search parameters of a request whose query is parsed
MaxParams == 2
\* characters of the value of a search parameter
MaxValueLen == 3
\* res.* calls one dispatch may make when two dispatches overlap
MaxPairCalls == 1

(* ------------------------------------------------------------------ *)
(* Program constants                                                    *)
(* ------------------------------------------------------------------ *)

\* cookiesHeader.length > 1000
CookieLimit == 1000
\* responseCode = 200
DefaultCode == 200
\* redirect: code ?? 307
RedirectCode == 307
\* the preflight response
PreflightCode == 204

None == [type |-> "none"]
Undefined == [type |-> "undefined"]
Null == [type |-> "null"]

(* ------------------------------------------------------------------ *)
(* Strings and values                                                   *)
(* ------------------------------------------------------------------ *)

Digit(d) == CASE d = 0 -> "0" [] d = 1 -> "1" [] d = 2 -> "2" [] d = 3 -> "3"
              [] d = 4 -> "4" [] d = 5 -> "5" [] d = 6 -> "6" [] d = 7 -> "7"
              [] d = 8 -> "8" [] d = 9 -> "9"

RECURSIVE NumToString(_)
\* Number.prototype.toString of a natural number
NumToString(n) == IF n < 10 THEN <<Digit(n)>>
                  ELSE NumToString(n \div 10) \o <<Digit(n % 10)>>

Str(chars) == [type |-> "string", chars |-> chars]
Num(n) == [type |-> "number", n |-> n]
\* an object literal: its properties in insertion order
Obj(props) == [type |-> "object", props |-> props]

Quote(chars) == <<"\"">> \o chars \o <<"\"">>

\* JSON.stringify of a number or a string property value
StringifyValue(v) == IF v.type = "number" THEN NumToString(v.n) ELSE Quote(v.chars)

RECURSIVE StringifyProps(_)
StringifyProps(props) ==
  IF props = <<>> THEN <<>>
  ELSE Quote(props[1].key) \o <<":">> \o StringifyValue(props[1].value)
       \o (IF Len(props) > 1 THEN <<",">> ELSE <<>>)
       \o StringifyProps(Tail(props))

\* JSON.stringify(json): the text of a string or of an object
JSONStringify(v) ==
  IF v.type = "string" THEN Quote(v.chars)
  ELSE <<"{">> \o StringifyProps(v.props) \o <<"}">>

\* value.code: the property `code` of an object, undefined on any other value
\* (a string has no property `code`)
PropCode(v) ==
  IF v.type = "object" /\ \E i \in 1..Len(v.props) : v.props[i].key = <<"c", "o", "d", "e">>
  THEN LET i == CHOOSE j \in 1..Len(v.props) : v.props[j].key = <<"c", "o", "d", "e">>
       IN v.props[i].value
  ELSE Undefined

\* JavaScript truthiness of the values of the model
Truthy(v) ==
  CASE v.type = "undefined" -> FALSE
    [] v.type = "null" -> FALSE
    [] v.type = "none" -> FALSE
    [] v.type = "string" -> v.chars # <<>>
    [] v.type = "number" -> v.n # 0
    [] OTHER -> TRUE

\* string.length
Length(v) == Len(v.chars)

(* ------------------------------------------------------------------ *)
(* The application: configuration, routes, plugin registry              *)
(* ------------------------------------------------------------------ *)

VARIABLES
  config,             \* the Config given to the constructor
  plugins,            \* #plugins: per stage, the prefixes in insertion order with their hooks
  uses,               \* use() calls made so far; the n-th call registers plugin n
  serving,            \* a request has been dispatched: the registry is no longer changed
  maxCalls,           \* res.* / req.* calls one dispatch may make (a bound, set by Init)
  maxUse,             \* use() calls the configuration may make (a bound, set by Init)
  cacheStore,         \* the Cache Gateway: request key -> stored response
  tasks,              \* cache.put calls handed to waitUntil and not completed yet
  pc,                 \* where the dispatch is
  request,            \* the request of the dispatch; the length of its `cookies` header
                      \* and whether fetch was given a context are set when they are read
  cache,              \* fetch: the local `cache` is defined
  route,              \* route.handlers of the matched route
  idx,                \* the loop index of the stage the dispatch is in
  running,            \* a hook or handler has been invoked and has not returned
  reading,            \* the body read #handle awaits
  responseCode,
  responseHeaders,
  responseBody,
  requiresFormatting,
  callsLeft,          \* res.* / req.* calls left to this dispatch
  err,                \* the value thrown into the catch block of fetch
  response,           \* the response #handle returned
  result,             \* what the promise returned by fetch settled to
  trace,              \* the hooks, validation steps, body reads and handlers run so far
  statusSetBy,        \* which statement assigned responseCode last
  previous,           \* with a cache configured, for a GET request that follows a GET
                      \* request of the same key: what fetch answered to that one, and
                      \* what the cache held for the key when this one began
  searchParams,       \* url.searchParams: the entries the query loop has not visited yet
  query,              \* the local `query` of #handle: key -> coerced value
  coerced,            \* the entry the query loop visited last, and what it assigned
  ENV,                \* x/env.ts: the module variable `let ENV`
  suspended           \* the locals of a second call of fetch that is awaiting, while the
                      \* variables above hold those of the call that is executing

appVars == <<config, plugins, uses, serving, maxCalls, maxUse>>
cacheVars == <<cacheStore, tasks>>
ghostVars == <<previous>>
envVars == <<ENV>>
pairVars == <<suspended>>
queryVars == <<searchParams, query, coerced>>
resVars == <<responseCode, responseHeaders, responseBody, requiresFormatting, statusSetBy>>
vars == <<config, plugins, uses, serving, maxCalls, maxUse, cacheStore, tasks, pc, request,
          cache, route, idx, running, reading, responseCode, responseHeaders,
          responseBody, requiresFormatting, callsLeft, err, response, result, trace,
          statusSetBy, previous, searchParams, query, coerced, ENV,
          suspended>>

Star == <<"*">>
Api == <<"/", "a", "p", "i">>
ApiUsers == <<"/", "a", "p", "i", "/", "u", "s", "e", "r", "s">>

Methods == {"GET", "POST", "OPTIONS"}
Paths == {Api, ApiUsers}
Stages == {"beforeParsing", "beforeHandling", "beforeResponding"}

\* the prefix argument of use(): absent, or a path
NoPrefix == <<>>
Prefixes == {NoPrefix, Api}
\* the plugin objects given to use(): the lifecycle methods each defines
PluginKinds == {Stages}

Fn == [type |-> "function"]
Schema(h, q, c, b, t) ==
  [type |-> "schema", headers |-> h, query |-> q, cookies |-> c, body |-> b, transform |-> t]

\* the route table the application was configured with: app.get('/api', h, h),
\* app.post('/api', schema, h), app.post('/api/users', schema, h),
\* app.options('/api/users', schema, h)
Routes ==
  << [method |-> "GET", path |-> Api, handlers |-> <<Fn, Fn>>],
     [method |-> "POST", path |-> Api,
      handlers |-> <<Schema(TRUE, FALSE, FALSE, "none", FALSE), Fn>>],
     [method |-> "POST", path |-> ApiUsers,
      handlers |-> <<Schema(TRUE, TRUE, TRUE, "Object", TRUE), Fn>>],
     [method |-> "OPTIONS", path |-> ApiUsers,
      handlers |-> <<Schema(FALSE, FALSE, TRUE, "String", FALSE), Fn>>] >>

\* Router.match(method, pathname): the handlers of the route, or nothing
RouterMatch(method, pathname) ==
  IF \E i \in 1..Len(Routes) : Routes[i].method = method /\ Routes[i].path = pathname
  THEN LET i == CHOOSE j \in 1..Len(Routes) :
                  Routes[j].method = method /\ Routes[j].path = pathname
       IN [type |-> "route", handlers |-> Routes[i].handlers]
  ELSE None

Configs ==
  [validator : BOOLEAN, cache : BOOLEAN, runtime : {"deno", "cloudflare"},
   notFound : BOOLEAN, error : BOOLEAN]

NoPlugins == [s \in Stages |-> <<>>]

\* a registration that puts the hook in front of those of its prefix (unshift for
\* push): the variant the registration order must exclude
RegisterInFront(list, prefix, hook) ==
  IF \E i \in 1..Len(list) : list[i].key = prefix
  THEN [i \in 1..Len(list) |->
          IF list[i].key = prefix
          THEN [list[i] EXCEPT !.hooks = <<hook>> \o @]
          ELSE list[i]]
  ELSE Append(list, [key |-> prefix, hooks |-> <<hook>>])

\* this.#plugins[key][prefix].push(hook), or = [hook] for a new prefix
Register(list, prefix, hook) ==
  IF \E i \in 1..Len(list) : list[i].key = prefix
  THEN [i \in 1..Len(list) |->
          IF list[i].key = prefix
          THEN [list[i] EXCEPT !.hooks = Append(@, hook)]
          ELSE list[i]]
  ELSE Append(list, [key |-> prefix, hooks |-> <<hook>>])

\* use(prefix?, plugin): `if (!prefix) prefix = '*'`, then one push per method of the plugin
UsePlugin(registry, prefix, plugin, hook) ==
  LET p == IF prefix = NoPrefix THEN Star ELSE prefix
  IN [s \in Stages |->
        IF s \in plugin THEN Register(registry[s], p, hook) ELSE registry[s]]

\* the `continue` test of the three plugin loops of #handle
SkipsKey(key, pathname) ==
  /\ key # Star
  /\ <<pathname[1]>> # key \o <<"/">>
  /\ pathname # key

RECURSIVE HooksOf(_, _)
\* the hooks the plugin loop of one stage awaits for a request, in order
HooksOf(list, pathname) ==
  IF list = <<>> THEN <<>>
  ELSE (IF SkipsKey(list[1].key, pathname) THEN <<>> ELSE list[1].hooks)
       \o HooksOf(Tail(list), pathname)

(* ------------------------------------------------------------------ *)
(* Requests, responses, thrown values                                   *)
(* ------------------------------------------------------------------ *)

\* a string the code passes on without looking into it
Text(s) == [type |-> "text", text |-> s]

HeaderNames == {"location", "content-type", "content-length", "cache-control", "set-cookie"}
\* an object without properties: reading a header it lacks gives undefined
NoHeaders == [n \in HeaderNames |-> Undefined]
\* `!headers[name]`, `if (headers.location)`: undefined and '' are falsy
HeaderTruthy(v) ==
  CASE v.type = "string" -> v.chars # <<>>
    [] v.type = "text" -> v.text # ""
    [] OTHER -> FALSE

\* new Response(body, { status, headers })
Response(body, status, headers) ==
  [type |-> "response", status |-> status, headers |-> headers, body |-> body]

\* response.ok
Ok(r) == r.status >= 200 /\ r.status <= 299

Exception(code) == [type |-> "Exception", code |-> code]
Error == [type |-> "Error"]
\* what a hook or a handler may throw
Thrown == {Exception(403), Error}

KeyCode == <<"c", "o", "d", "e">>
KeyMessage == <<"m", "e", "s", "s", "a", "g", "e">>
KeyMsg == <<"m", "s", "g">>

\* Exception.response(request): the JSON body { message, code } under the Exception's code
ExceptionResponse(code) ==
  Response(Str(JSONStringify(Obj(<< [key |-> KeyMessage, value |-> Str(<<"E">>)],
                                    [key |-> KeyCode, value |-> Num(code)] >>))),
           code,
           [NoHeaders EXCEPT !["content-type"] = Text("application/json; charset=utf-8;")])

SomethingWentWrong ==
  <<"S", "o", "m", "e", "t", "h", "i", "n", "g", " ", "W", "e", "n", "t", " ",
    "W", "r", "o", "n", "g">>

\* the fallback of the catch block of fetch
FallbackResponse ==
  Response(Str(JSONStringify(Obj(<< [key |-> KeyMessage, value |-> Str(SomethingWentWrong)],
                                    [key |-> KeyCode, value |-> Num(500)] >>))),
           500,
           [NoHeaders EXCEPT !["content-type"] = Text("application/json; charset=utf-8;")])

\* the responses of the application's own error and not-found handlers
ErrorHandlerResponse == Response(Str(<<"o", "o", "p", "s">>), 500, NoHeaders)
NotFoundHandlerResponse == Response(Str(<<"n", "o", "n", "e">>), 404, NoHeaders)

\* the preflight response of #handle (an application without cors)
PreflightResponse ==
  Response(Null, PreflightCode, NoHeaders)

Rejected == [type |-> "rejected"]
Resolved(via, r) == [type |-> "resolved", via |-> via, response |-> r]

\* values a handler may return
ObjPlain == Obj(<< [key |-> KeyMsg, value |-> Str(<<"x">>)] >>)
ObjCoded == Obj(<< [key |-> KeyCode, value |-> Num(404)],
                   [key |-> KeyMsg, value |-> Str(<<"x">>)] >>)
Results == {Undefined, Str(<<"o", "k">>), ObjPlain, ObjCoded}

\* arguments of the res.* calls
StatusArgs == {301, 404}
OptionalCode == {Undefined, Num(404)}
Destination == Str(<<"/", "x">>)
HeaderArgs ==
  { <<"location", Destination>>, <<"location", Str(<<>>)>>,
    <<"content-type", Text("text/html")>>, <<"cache-control", Text("no-store")>> }
RedirectCodes == {Undefined, Num(301)}
Blob == [type |-> "blob", size |-> 3]
Stream == [type |-> "stream"]
FormData == [type |-> "formData"]
Buffer == [type |-> "buffer", byteLength |-> 3]
Texts == {Str(<<"h", "i">>), Str(<<>>)}
Jsons == {ObjPlain}

\* lengths of the `cookies` header of a request
CookieLengths == {0, CookieLimit, CookieLimit + 1}
BodyReads == {"formData", "json", "text"}
ReadOutcomes == {"ok", "deadline", "error"}

(* ------------------------------------------------------------------ *)
(* Construction and configuration                                       *)
(* ------------------------------------------------------------------ *)

\* the state of one dispatch before fetch is called
Fresh ==
  /\ pc = "idle"
  /\ request = None
  /\ cache = FALSE
  /\ route = None
  /\ idx = 1
  /\ running = FALSE
  /\ reading = "none"
  /\ responseCode = DefaultCode
  /\ responseHeaders = NoHeaders
  /\ responseBody = Null
  /\ requiresFormatting = TRUE
  /\ statusSetBy = "default"
  /\ callsLeft = 0
  /\ err = None
  /\ response = None
  /\ result = None
  /\ trace = <<>>

\* the local `query` of #handle before the query loop: `const query = {}`
NoQuery == [type |-> "query", entries |-> <<>>]

\* new cheetah(config): no plugin is registered, nothing is cached; `params` are the
\* search parameters of the request whose query is parsed
ConstructedFor(c, calls, registrations, params) ==
  /\ config = c
  /\ maxUse = registrations
  /\ plugins = NoPlugins
  /\ uses = 0
  /\ serving = FALSE
  /\ maxCalls = calls
  /\ cacheStore = [p \in Paths |-> None]
  /\ tasks = <<>>
  /\ previous = None
  /\ searchParams = params
  /\ query = NoQuery
  /\ coerced = None
  /\ ENV = Undefined
  /\ suspended = None
  /\ Fresh

Constructed(c, calls, registrations) == ConstructedFor(c, calls, registrations, <<>>)

\* the cache is consulted: `this.#cache && ... && this.#runtime === 'cloudflare'`
CacheInUse(c) == c.cache /\ c.runtime = "cloudflare"

\* an application without cache, error handler and not-found handler
BaseConfig ==
  [validator |-> TRUE, cache |-> FALSE, runtime |-> "deno", notFound |-> FALSE,
   error |-> FALSE]

Scenario(c, calls, registrations) ==
  [config |-> c, calls |-> calls, uses |-> registrations]

\* every combination of validator, error handler and not-found handler, with plugins
PluginScenarios ==
  { Scenario(c, 0, MaxUse) : c \in {k \in Configs : ~k.cache /\ k.runtime = "deno"} }

\* every combination of cache and runtime
CacheScenarios ==
  { Scenario([BaseConfig EXCEPT !.cache = c, !.runtime = r], 0, 0) :
      c \in BOOLEAN, r \in {"deno", "cloudflare"} }

\* callbacks that call the context
ContextScenarios == { Scenario(BaseConfig, MaxCalls, 0) }

\* callbacks that call the context several times, and hooks that call it
ResponseScenarios ==
  { Scenario(BaseConfig, MaxResCalls, 0), Scenario(BaseConfig, MaxResCalls - 1, MaxUse - 1),
    Scenario([BaseConfig EXCEPT !.cache = TRUE, !.runtime = "cloudflare"], 0, 0) }

Init ==
  \E sc \in PluginScenarios \cup CacheScenarios \cup ContextScenarios :
    Constructed(sc.config, sc.calls, sc.uses)

\* the initial states of the specification of the response state
InitRes == \E sc \in ResponseScenarios : Constructed(sc.config, sc.calls, sc.uses)

\* app.use(prefix?, plugin)
Use(prefix, plugin) ==
  /\ ~serving
  /\ uses < maxUse
  /\ plugins' = UsePlugin(plugins, prefix, plugin, uses + 1)
  /\ uses' = uses + 1
  /\ UNCHANGED <<pairVars, envVars, queryVars, ghostVars, config, serving, maxCalls, maxUse, cacheVars, pc, request, cache, route, idx,
                 running, reading, resVars, callsLeft, err, response, result, trace>>

(* ------------------------------------------------------------------ *)
(* fetch                                                                *)
(* ------------------------------------------------------------------ *)

\* fetch(request, env, context) up to its first await: the per-dispatch locals are
\* new, and the cache is opened for a GET request when one is configured
Begins(method, pathname, origin, acrm) ==
  /\ Len(tasks) <= MaxPending
  /\ method # "OPTIONS" => ~origin /\ ~acrm
  /\ serving' = TRUE
  /\ request' = [type |-> "request", method |-> method, path |-> pathname,
                 origin |-> origin, acrm |-> acrm, cookies |-> 0, context |-> FALSE]
  /\ pc' = IF config.cache /\ method = "GET" /\ config.runtime = "cloudflare"
           THEN "cacheLookup" ELSE "route"
  /\ cache' = FALSE
  /\ route' = None
  /\ idx' = 1
  /\ running' = FALSE
  /\ reading' = "none"
  /\ responseCode' = DefaultCode
  /\ responseHeaders' = NoHeaders
  /\ responseBody' = Null
  /\ requiresFormatting' = TRUE
  /\ statusSetBy' = "default"
  /\ callsLeft' = maxCalls
  /\ err' = None
  /\ response' = None
  /\ result' = None
  /\ trace' = <<>>
  /\ previous' = IF /\ pc = "done"
                    /\ config.cache
                    /\ request.method = "GET" /\ method = "GET"
                    /\ request.path = pathname
                 THEN [type |-> "dispatch", result |-> result,
                       cached |-> cacheStore[pathname],
                       pending |-> {tasks[i].response : i \in {j \in 1..Len(tasks) :
                                                                tasks[j].key = pathname}}]
                 ELSE None
  /\ UNCHANGED <<envVars, queryVars, config, plugins, uses, maxCalls, maxUse, cacheVars>>

\* fetch is called when no other call of it is in progress
Fetch(method, pathname, origin, acrm) ==
  /\ pc \in {"idle", "done"}
  /\ Begins(method, pathname, origin, acrm)
  /\ UNCHANGED pairVars

\* a fetch that never returns from the cache: the variant the cache property must exclude
HitNever(cachedResponse) == FALSE

\* `if (cachedResponse) return cachedResponse`
Hit(cachedResponse) == cachedResponse # None

\* `cache = await caches.open(name)`, `await cache.match(request)`: outside the try block
CacheLookup(fails) ==
  /\ pc = "cacheLookup"
  /\ IF fails
     THEN /\ result' = Rejected
          /\ pc' = "done"
          /\ cache' = cache
     ELSE /\ cache' = TRUE
          /\ IF Hit(cacheStore[request.path])
             THEN /\ result' = Resolved("cache", cacheStore[request.path])
                  /\ pc' = "done"
             ELSE /\ result' = result
                  /\ pc' = "route"
  /\ UNCHANGED <<pairVars, envVars, queryVars, ghostVars, appVars, cacheVars, request, route, idx, running, reading, resVars,
                 callsLeft, err, response, trace>>

\* a dispatch without the preflight branch: the variant the preflight property must exclude
IsPreflightNever(req) == FALSE

\* the preflight test of #handle
IsPreflight(req) == req.method = "OPTIONS" /\ req.origin /\ req.acrm

\* a fetch without the not-found branch: the variant the not-found property must exclude
UnmatchedNever(matched) == FALSE

\* `if (!route)`
Unmatched(matched) == matched = None

\* `this.#router.match(...)`, the not-found branch, and #handle up to the plugin loop
Route(notFoundOutcome) ==
  /\ pc = "route"
  /\ LET matched == RouterMatch(request.method, request.path)
     IN IF Unmatched(matched)
        THEN /\ route' = None
             /\ response' = response
             /\ IF config.notFound
                THEN CASE notFoundOutcome = "response" ->
                            /\ result' = Resolved("notFound", NotFoundHandlerResponse)
                            /\ pc' = "done"
                            /\ err' = err
                       [] notFoundOutcome = "throws" ->
                            /\ err' = Error
                            /\ pc' = "catch"
                            /\ result' = result
                       [] notFoundOutcome = "rejects" ->
                            /\ result' = Rejected
                            /\ pc' = "done"
                            /\ err' = err
                ELSE /\ err' = Exception(404)
                     /\ pc' = "catch"
                     /\ result' = result
        ELSE /\ route' = matched
             /\ err' = err
             /\ result' = result
             /\ IF IsPreflight(request)
                THEN /\ response' = PreflightResponse
                     /\ pc' = "respond"
                ELSE /\ response' = response
                     /\ pc' = "beforeParsing"
  /\ UNCHANGED <<pairVars, envVars, queryVars, ghostVars, appVars, cacheVars, request, cache, idx, running, reading, resVars,
                 callsLeft, trace>>

(* ------------------------------------------------------------------ *)
(* #handle: plugin loops                                                *)
(* ------------------------------------------------------------------ *)

HookStages == {"beforeParsing", "beforeHandling", "beforeResponding"}
\* the stages whose callbacks are given the context
ContextStages == {"beforeHandling", "handlers", "beforeResponding"}

\* the hooks the plugin loop of the current stage runs for the request
HookList == HooksOf(plugins[pc], request.path)

\* a pipeline that returns to the beforeHandling loop after the beforeResponding loop: the
\* variant the stage order must exclude
StageAfterBackwards(stage) ==
  CASE stage = "beforeParsing" -> "validate"
    [] stage = "beforeHandling" -> "handlers"
    [] stage = "beforeResponding" -> "beforeHandling"

\* the stage after a plugin loop
StageAfter(stage) ==
  CASE stage = "beforeParsing" -> "validate"
    [] stage = "beforeHandling" -> "handlers"
    [] stage = "beforeResponding" -> "format"

\* `await this.#plugins[stage][key][i](...)`: the hook is called
InvokeHook ==
  /\ pc \in HookStages
  /\ ~running
  /\ idx <= Len(HookList)
  /\ running' = TRUE
  /\ trace' = Append(trace, [ev |-> "hook", stage |-> pc, id |-> HookList[idx]])
  /\ UNCHANGED <<pairVars, envVars, queryVars, ghostVars, appVars, cacheVars, pc, request, cache, route, idx, reading, resVars,
                 callsLeft, err, response, result>>

\* the awaited hook has completed: the loop goes on
HookReturns ==
  /\ pc \in HookStages
  /\ running
  /\ running' = FALSE
  /\ idx' = idx + 1
  /\ UNCHANGED <<pairVars, envVars, queryVars, ghostVars, appVars, cacheVars, pc, request, cache, route, reading, resVars,
                 callsLeft, err, response, result, trace>>

\* the plugin loop of the stage has run all its hooks
HooksDone ==
  /\ pc \in HookStages
  /\ ~running
  /\ idx > Len(HookList)
  /\ pc' = StageAfter(pc)
  /\ idx' = 1
  /\ UNCHANGED <<pairVars, envVars, queryVars, ghostVars, appVars, cacheVars, request, cache, route, running, reading, resVars,
                 callsLeft, err, response, result, trace>>

\* a pipeline that swallows what a hook or a handler throws and goes on with its loop:
\* the variant the end of a failed dispatch must exclude
ThrowsAndGoesOn(e) ==
  /\ pc \in HookStages \cup {"handlers"}
  /\ running
  /\ running' = FALSE
  /\ err' = e
  /\ idx' = idx + 1
  /\ UNCHANGED <<pairVars, envVars, queryVars, ghostVars, appVars, cacheVars, pc, request, cache, route, reading, resVars,
                 callsLeft, response, result, trace>>

\* a hook or a handler throws (or its promise rejects): the catch block of fetch is next
Throws(e) ==
  /\ pc \in HookStages \cup {"handlers"}
  /\ running
  /\ running' = FALSE
  /\ err' = e
  /\ pc' = "catch"
  /\ UNCHANGED <<pairVars, envVars, queryVars, ghostVars, appVars, cacheVars, request, cache, route, idx, reading, resVars,
                 callsLeft, response, result, trace>>

(* ------------------------------------------------------------------ *)
(* #handle: validation and context                                      *)
(* ------------------------------------------------------------------ *)

\* `typeof route[0] !== 'function' ? route[0] : null`
SchemaOf(handlers) == IF handlers[1].type # "function" THEN handlers[1] ELSE Null

\* the try/catch around the cookie parse: what is thrown in it is swallowed and the
\* cookies are the empty object; a header of length 0 parses to the empty object too
ParseCookies(length) ==
  LET thrown == IF length > CookieLimit THEN Exception(413) ELSE None
  IN IF thrown # None
     THEN [type |-> "cookies", entries |-> 0, thrown |-> thrown]
     ELSE [type |-> "cookies", entries |-> IF length = 0 THEN 0 ELSE 1, thrown |-> None]

\* the body read the schema asks for
BodyReadOf(schema, multipart) ==
  CASE schema.body = "Object" -> IF schema.transform /\ multipart THEN "formData" ELSE "json"
    [] schema.body = "String" -> "text"
    [] OTHER -> "none"

Validated(part, ok) == [ev |-> "validate", part |-> part, ok |-> ok]

\* `const responseHeaders = { ...cache-control for GET }`
ContextHeaders ==
  IF request.method = "GET"
  THEN [NoHeaders EXCEPT !["cache-control"] =
          Text(IF config.cache THEN "max-age=[object Object]" ELSE "max-age=0")]
  ELSE NoHeaders

\* the context is constructed and the beforeHandling loop is next
EnterContext ==
  /\ pc' = "beforeHandling"
  /\ idx' = 1
  /\ responseCode' = DefaultCode
  /\ responseHeaders' = ContextHeaders
  /\ responseBody' = Null
  /\ requiresFormatting' = TRUE
  /\ statusSetBy' = "default"

\* a validation that lets every value pass: the variant the rejection property must exclude
RejectsNever(present, isValid) == FALSE

\* `if (!isValid) throw new Exception(400)` of a sub-schema that is present
Rejects(present, isValid) == present /\ ~isValid

\* a body read that does not tell a passed deadline from another failure: the variant the
\* deadline property must exclude
ReadFailureCodeAlways400(outcome) == 400

\* `throw new Exception(err instanceof DeadlineError ? 413 : 400)`
ReadFailureCode(outcome) == IF outcome = "deadline" THEN 413 ELSE 400

\* validation fails, or a body read fails: `throw new Exception(code)`
Raise(code) ==
  /\ err' = Exception(code)
  /\ pc' = "catch"
  /\ UNCHANGED <<idx, resVars>>

\* a validation stage that runs for every schema, validator or not: the variant the
\* skipped validation must exclude
ValidatesAnySchema(validator, schema) == schema.type = "schema"

\* `if (this.#validator && schema)`
Validates(validator, schema) == validator /\ schema.type = "schema"

\* the validation stage up to the body read: headers, query, cookies
Validate(hOk, qOk, cOk, cookieLength, multipart) ==
  /\ pc = "validate"
  /\ LET schema == SchemaOf(route.handlers)
     IN IF Validates(config.validator, schema)
        THEN LET evH == IF schema.headers THEN <<Validated("headers", hOk)>> ELSE <<>>
                 hFails == Rejects(schema.headers, hOk)
                 evQ == IF ~hFails /\ schema.query
                        THEN <<Validated("query", qOk)>> ELSE <<>>
                 qFails == ~hFails /\ Rejects(schema.query, qOk)
                 cookies == ParseCookies(cookieLength)
                 evC == IF ~hFails /\ ~qFails /\ schema.cookies
                        THEN << [ev |-> "validate", part |-> "cookies", ok |-> cOk,
                                 length |-> cookieLength, cookies |-> cookies] >>
                        ELSE <<>>
                 cFails == ~hFails /\ ~qFails /\ Rejects(schema.cookies, cOk)
                 read == BodyReadOf(schema, multipart)
             IN /\ trace' = trace \o evH \o evQ \o evC
                /\ request' = IF evC # <<>>
                              THEN [request EXCEPT !.cookies = cookieLength]
                              ELSE request
                /\ IF hFails \/ qFails \/ cFails
                   THEN Raise(400) /\ reading' = reading
                   ELSE IF schema.body = "none"
                   THEN EnterContext /\ reading' = reading /\ err' = err
                   ELSE /\ pc' = "bodyRead"
                        /\ reading' = read
                        /\ UNCHANGED <<idx, resVars, err>>
        ELSE /\ EnterContext
             /\ UNCHANGED <<reading, err, trace, request>>
  /\ UNCHANGED <<pairVars, envVars, queryVars, ghostVars, appVars, cacheVars, cache, route, running, callsLeft,
                 response, result>>

\* `body = await deadline(request.formData() | json() | text(), 3000)` and the
\* validation of the body; a schema of another kind reads nothing
BodyRead(outcome, bOk) ==
  /\ pc = "bodyRead"
  /\ IF reading = "none"
     THEN /\ trace' = Append(trace, Validated("body", bOk))
          /\ IF Rejects(TRUE, bOk) THEN Raise(400) ELSE EnterContext /\ err' = err
     ELSE IF outcome # "ok"
     THEN /\ trace' = Append(trace, [ev |-> "read", by |-> "schema", op |-> reading,
                                     outcome |-> outcome])
          /\ Raise(ReadFailureCode(outcome))
     ELSE /\ trace' = trace \o << [ev |-> "read", by |-> "schema", op |-> reading,
                                   outcome |-> outcome],
                                  Validated("body", bOk) >>
          /\ IF Rejects(TRUE, bOk) THEN Raise(400) ELSE EnterContext /\ err' = err
  /\ UNCHANGED <<pairVars, envVars, queryVars, ghostVars, appVars, cacheVars, request, cache, route, running, reading, callsLeft,
                 response, result>>

(* ------------------------------------------------------------------ *)
(* #handle: the handler chain                                           *)
(* ------------------------------------------------------------------ *)

RECURSIVE NextFunction(_, _)
\* `if (typeof route[i] !== 'function') continue`: the next index holding a handler
NextFunction(handlers, i) ==
  IF i > Len(handlers) \/ handlers[i].type = "function" THEN i
  ELSE NextFunction(handlers, i + 1)

\* `await route[i](context)`: the handler is called
InvokeHandler ==
  /\ pc = "handlers"
  /\ ~running
  /\ NextFunction(route.handlers, idx) <= Len(route.handlers)
  /\ idx' = NextFunction(route.handlers, idx)
  /\ running' = TRUE
  /\ trace' = Append(trace, [ev |-> "handler", index |-> idx'])
  /\ UNCHANGED <<pairVars, envVars, queryVars, ghostVars, appVars, cacheVars, pc, request, cache, route, reading, resVars,
                 callsLeft, err, response, result>>

\* `if (result) responseBody = result`
BodyAfter(body, returned) == IF Truthy(returned) THEN returned ELSE body

\* a handler chain that never stops early: the variant the chain property must exclude
BreaksNever(body) == FALSE

\* `if (responseBody) break`
Breaks(body) == Truthy(body)

\* the awaited handler has returned `returned`
HandlerReturns(returned) ==
  /\ pc = "handlers"
  /\ running
  /\ running' = FALSE
  /\ responseBody' = BodyAfter(responseBody, returned)
  /\ IF Breaks(responseBody')
     THEN pc' = "beforeResponding" /\ idx' = 1
     ELSE pc' = pc /\ idx' = idx + 1
  /\ trace' = Append(trace, [ev |-> "returned", index |-> idx, value |-> returned])
  /\ UNCHANGED <<pairVars, envVars, queryVars, ghostVars, appVars, cacheVars, request, cache, route, reading, responseCode,
                 responseHeaders, requiresFormatting, statusSetBy, callsLeft, err,
                 response, result>>

\* the loop over the route has ended without a break
HandlersDone ==
  /\ pc = "handlers"
  /\ ~running
  /\ NextFunction(route.handlers, idx) > Len(route.handlers)
  /\ pc' = "beforeResponding"
  /\ idx' = 1
  /\ UNCHANGED <<pairVars, envVars, queryVars, ghostVars, appVars, cacheVars, request, cache, route, running, reading, resVars,
                 callsLeft, err, response, result, trace>>

(* ------------------------------------------------------------------ *)
(* The context: res.* and the body readers of req                       *)
(* ------------------------------------------------------------------ *)

\* a callback that holds the context is running and may call it
CanCall == pc \in ContextStages /\ running /\ callsLeft > 0

\* what a call of the context leaves alone
Called ==
  /\ callsLeft' = callsLeft - 1
  /\ UNCHANGED <<pairVars, envVars, queryVars, ghostVars, appVars, cacheVars, pc, request, cache, route, idx, running, reading,
                 err, response, result>>

\* `if (code) responseCode = code`
CodeAfter(current, code) == IF Truthy(code) THEN code.n ELSE current

\* `if (!responseHeaders['content-type']) responseHeaders['content-type'] = type`
WithContentType(headers, type) ==
  IF ~HeaderTruthy(headers["content-type"])
  THEN [headers EXCEPT !["content-type"] = Text(type)]
  ELSE headers

\* `responseHeaders['content-length'] = n.toString()`
WithContentLength(headers, n) ==
  [headers EXCEPT !["content-length"] = Str(NumToString(n))]

\* a record of a call that stages a body, or of res.redirect, for the trace
Staged(op, body) == [ev |-> "set", op |-> op, body |-> body]

ResCode(code) ==
  /\ CanCall
  /\ responseCode' = code
  /\ statusSetBy' = "code"
  /\ UNCHANGED <<responseHeaders, responseBody, requiresFormatting, trace>>
  /\ Called

ResCookie ==
  /\ CanCall
  /\ responseHeaders' = [responseHeaders EXCEPT !["set-cookie"] = Text("name=value;")]
  /\ UNCHANGED <<responseCode, responseBody, requiresFormatting, statusSetBy, trace>>
  /\ Called

ResHeader(name, value) ==
  /\ CanCall
  /\ responseHeaders' = [responseHeaders EXCEPT ![name] = value]
  /\ UNCHANGED <<responseCode, responseBody, requiresFormatting, statusSetBy, trace>>
  /\ Called

ResRedirect(destination, code) ==
  /\ CanCall
  /\ responseHeaders' = [responseHeaders EXCEPT !["location"] = destination]
  /\ responseCode' = IF code = Undefined THEN RedirectCode ELSE code.n
  /\ statusSetBy' = IF code = Undefined THEN "redirect" ELSE "code"
  /\ trace' = Append(trace, Staged("redirect", Null))
  /\ UNCHANGED <<responseBody, requiresFormatting>>
  /\ Called

ResBlob(blob, code) ==
  /\ CanCall
  /\ responseBody' = blob
  /\ requiresFormatting' = FALSE
  /\ responseHeaders' = WithContentLength(responseHeaders, blob.size)
  /\ responseCode' = CodeAfter(responseCode, code)
  /\ statusSetBy' = IF Truthy(code) THEN "code" ELSE statusSetBy
  /\ trace' = Append(trace, Staged("blob", blob))
  /\ Called

ResStream(stream, code) ==
  /\ CanCall
  /\ responseBody' = stream
  /\ requiresFormatting' = FALSE
  /\ responseCode' = CodeAfter(responseCode, code)
  /\ statusSetBy' = IF Truthy(code) THEN "code" ELSE statusSetBy
  /\ trace' = Append(trace, Staged("stream", stream))
  /\ UNCHANGED responseHeaders
  /\ Called

ResFormData(formData, code) ==
  /\ CanCall
  /\ responseBody' = formData
  /\ requiresFormatting' = FALSE
  /\ responseCode' = CodeAfter(responseCode, code)
  /\ statusSetBy' = IF Truthy(code) THEN "code" ELSE statusSetBy
  /\ trace' = Append(trace, Staged("formData", formData))
  /\ UNCHANGED responseHeaders
  /\ Called

ResBuffer(buffer, code) ==
  /\ CanCall
  /\ responseBody' = buffer
  /\ requiresFormatting' = FALSE
  /\ responseHeaders' = WithContentLength(responseHeaders, buffer.byteLength)
  /\ responseCode' = CodeAfter(responseCode, code)
  /\ statusSetBy' = IF Truthy(code) THEN "code" ELSE statusSetBy
  /\ trace' = Append(trace, Staged("buffer", buffer))
  /\ Called

ResJson(json, code) ==
  /\ CanCall
  /\ responseBody' = Str(JSONStringify(json))
  /\ requiresFormatting' = FALSE
  /\ responseHeaders' =
       WithContentLength(WithContentType(responseHeaders, "application/json; charset=utf-8"),
                         Length(responseBody'))
  /\ responseCode' = CodeAfter(responseCode, code)
  /\ statusSetBy' = IF Truthy(code) THEN "code" ELSE statusSetBy
  /\ trace' = Append(trace, Staged("json", responseBody'))
  /\ Called

\* a res.text that leaves a body staged before it in place: the variant "the last
\* call wins" must exclude
ResTextKeepsFirst(text, code) ==
  /\ CanCall
  /\ responseBody' = IF responseBody = Null THEN text ELSE responseBody
  /\ requiresFormatting' = FALSE
  /\ responseHeaders' =
       WithContentLength(WithContentType(responseHeaders, "text/plain; charset=utf-8"),
                         Length(text))
  /\ responseCode' = CodeAfter(responseCode, code)
  /\ statusSetBy' = IF Truthy(code) THEN "code" ELSE statusSetBy
  /\ trace' = Append(trace, Staged("text", text))
  /\ Called

ResText(text, code) ==
  /\ CanCall
  /\ responseBody' = text
  /\ requiresFormatting' = FALSE
  /\ responseHeaders' =
       WithContentLength(WithContentType(responseHeaders, "text/plain; charset=utf-8"),
                         Length(text))
  /\ responseCode' = CodeAfter(responseCode, code)
  /\ statusSetBy' = IF Truthy(code) THEN "code" ELSE statusSetBy
  /\ trace' = Append(trace, Staged("text", text))
  /\ Called

\* req.buffer / req.blob / req.formData: `try { return await deadline(promise, d ?? 3000) }
\* catch (_err) { return null }`
ReaderReturns(outcome) == IF outcome = "ok" THEN "value" ELSE "null"

ContextRead(op, outcome) ==
  /\ CanCall
  /\ trace' = Append(trace, [ev |-> "read", by |-> "context", op |-> op,
                             outcome |-> outcome, returned |-> ReaderReturns(outcome)])
  /\ UNCHANGED resVars
  /\ Called

ReqBuffer(outcome) == ContextRead("buffer", outcome)
ReqBlob(outcome) == ContextRead("blob", outcome)
ReqFormData(outcome) == ContextRead("formData", outcome)

(* ------------------------------------------------------------------ *)
(* #handle: Construct Response                                          *)
(* ------------------------------------------------------------------ *)

ObjectObject ==
  <<"[", "o", "b", "j", "e", "c", "t", " ", "O", "b", "j", "e", "c", "t", "]">>

\* the body `new Response(responseBody as string, ...)` emits: an object that is no
\* body type is converted with String()
BodyInit(body) == IF body.type = "object" THEN Str(ObjectObject) ELSE body

\* a response construction without the redirect branch: the variant the redirect property
\* must exclude
RedirectsNever(headers) == FALSE

\* `if (responseHeaders.location)`
Redirects(headers) == HeaderTruthy(headers["location"])

\* a response construction that leaves the headers as they are: the variant the removal
\* of cache-control must exclude
KeptAll(code, headers) == headers

\* `if (responseCode !== 200 && responseCode !== 301) delete responseHeaders['cache-control']`
Kept(code, headers) ==
  IF code # 200 /\ code # 301
  THEN [headers EXCEPT !["cache-control"] = Undefined]
  ELSE headers

\* the response #handle returns for the response state it is given
ConstructResponse(code, headers, body, formatting) ==
  LET kept == Kept(code, headers)
  IN IF Redirects(kept) THEN Response(Null, code, kept)
     ELSE IF ~Truthy(body) THEN Response(Null, code, kept)
     ELSE IF formatting /\ body.type \notin {"null", "undefined"}
     THEN IF body.type = "string"
          THEN Response(body, code,
                        WithContentType(WithContentLength(kept, Length(body)),
                                        "text/plain; charset=utf-8"))
          ELSE LET text == Str(JSONStringify(body))
                   declared == PropCode(text)
               IN Response(text,
                           IF Truthy(declared) THEN declared.n ELSE code,
                           WithContentType(WithContentLength(kept, Length(text)),
                                           "application/json; charset=utf-8"))
     ELSE Response(BodyInit(body), code, kept)

\* the last statements of #handle
Format ==
  /\ pc = "format"
  /\ response' = ConstructResponse(responseCode, responseHeaders, responseBody,
                                   requiresFormatting)
  /\ pc' = "respond"
  /\ UNCHANGED <<pairVars, envVars, queryVars, ghostVars, appVars, cacheVars, request, cache, route, idx, running, reading,
                 resVars, callsLeft, err, result, trace>>

(* ------------------------------------------------------------------ *)
(* fetch: after #handle, and the catch block                            *)
(* ------------------------------------------------------------------ *)

\* a fetch that stores whatever #handle returned: the variant the cache store must exclude
StoresAlways(hasCache, r, context) == hasCache

\* `cache && response.ok && this.#runtime === 'cloudflare' && context`
Stores(hasCache, r, context) ==
  hasCache /\ Ok(r) /\ config.runtime = "cloudflare" /\ context

\* `context.waitUntil(cache.put(request, response.clone()))`, `return response`;
\* whether fetch was given a context is read here for the first time
Respond(context) ==
  /\ pc = "respond"
  /\ request' = [request EXCEPT !.context = context]
  /\ tasks' = IF Stores(cache, response, context)
              THEN Append(tasks, [key |-> request.path, response |-> response])
              ELSE tasks
  /\ result' = Resolved("handle", response)
  /\ pc' = "done"
  /\ UNCHANGED <<pairVars, envVars, queryVars, ghostVars, appVars, cacheStore, cache, route, idx, running, reading, resVars,
                 callsLeft, err, response, trace>>

\* a cache.put handed to waitUntil completes, at any later time
CachePut(i) ==
  /\ i \in 1..Len(tasks)
  /\ cacheStore' = [cacheStore EXCEPT ![tasks[i].key] = tasks[i].response]
  /\ tasks' = SubSeq(tasks, 1, i - 1) \o SubSeq(tasks, i + 1, Len(tasks))
  /\ UNCHANGED <<pairVars, envVars, queryVars, ghostVars, appVars, pc, request, cache, route, idx, running, reading, resVars,
                 callsLeft, err, response, result, trace>>

\* a catch block that hands every caught value to the application's error handler first:
\* the variant the precedence of the error translation must exclude
CaughtHandlerFirst(e, hasHandler, handlerOutcome) ==
  IF hasHandler
  THEN IF handlerOutcome = "response"
       THEN Resolved("error", ErrorHandlerResponse)
       ELSE Rejected
  ELSE IF e.type = "Exception"
  THEN Resolved("exception", ExceptionResponse(e.code))
  ELSE Resolved("fallback", FallbackResponse)

\* the catch block of fetch: what the promise of fetch settles to for the value caught;
\* the application's error handler answers, or fails itself
Caught(e, hasHandler, handlerOutcome) ==
  IF e.type = "Exception"
  THEN Resolved("exception", ExceptionResponse(e.code))
  ELSE IF hasHandler
  THEN IF handlerOutcome = "response"
       THEN Resolved("error", ErrorHandlerResponse)
       ELSE Rejected
  ELSE Resolved("fallback", FallbackResponse)

Catch(handlerOutcome) ==
  /\ pc = "catch"
  /\ result' = Caught(err, config.error, handlerOutcome)
  /\ pc' = "done"
  /\ UNCHANGED <<pairVars, envVars, queryVars, ghostVars, appVars, cacheVars, request, cache, route, idx, running, reading,
                 resVars, callsLeft, err, response, trace>>

(* ------------------------------------------------------------------ *)
(* Two calls of fetch in progress                                       *)
(* ------------------------------------------------------------------ *)

\* the locals of the call of fetch that is executing, and of the #handle it called
Locals ==
  [type |-> "locals", pc |-> pc, request |-> request, cache |-> cache, route |-> route,
   idx |-> idx, running |-> running, reading |-> reading, responseCode |-> responseCode,
   responseHeaders |-> responseHeaders, responseBody |-> responseBody,
   requiresFormatting |-> requiresFormatting, statusSetBy |-> statusSetBy,
   callsLeft |-> callsLeft, err |-> err, response |-> response, result |-> result,
   trace |-> trace]

\* the call that is executing is at an await (cache.match, a hook, a body read, a
\* handler) or has returned: the event loop may run something else
Suspendable ==
  \/ pc \in {"cacheLookup", "bodyRead", "done"}
  \/ running /\ pc \in HookStages \cup {"handlers"}

\* fetch is called while another call of it is awaiting: that call keeps its locals
FetchDuring(method, pathname, origin, acrm) ==
  /\ suspended = None
  /\ Suspendable
  /\ pc # "done"
  /\ suspended' = Locals
  /\ Begins(method, pathname, origin, acrm)

\* an application that keeps the response state in one place for all calls of fetch: the
\* variant the independence of two dispatches must exclude
ResumesSharing ==
  /\ suspended.type = "locals"
  /\ suspended.pc # "done"
  /\ Suspendable
  /\ suspended' = Locals
  /\ pc' = suspended.pc
  /\ request' = suspended.request
  /\ cache' = suspended.cache
  /\ route' = suspended.route
  /\ idx' = suspended.idx
  /\ running' = suspended.running
  /\ reading' = suspended.reading
  /\ callsLeft' = suspended.callsLeft
  /\ err' = suspended.err
  /\ response' = suspended.response
  /\ result' = suspended.result
  /\ trace' = suspended.trace
  /\ UNCHANGED <<resVars, envVars, queryVars, ghostVars, appVars, cacheVars>>

\* the awaiting call of fetch is resumed, with the locals it had, and the other waits
Resumes ==
  /\ suspended.type = "locals"
  /\ suspended.pc # "done"
  /\ Suspendable
  /\ suspended' = Locals
  /\ pc' = suspended.pc
  /\ request' = suspended.request
  /\ cache' = suspended.cache
  /\ route' = suspended.route
  /\ idx' = suspended.idx
  /\ running' = suspended.running
  /\ reading' = suspended.reading
  /\ responseCode' = suspended.responseCode
  /\ responseHeaders' = suspended.responseHeaders
  /\ responseBody' = suspended.responseBody
  /\ requiresFormatting' = suspended.requiresFormatting
  /\ statusSetBy' = suspended.statusSetBy
  /\ callsLeft' = suspended.callsLeft
  /\ err' = suspended.err
  /\ response' = suspended.response
  /\ result' = suspended.result
  /\ trace' = suspended.trace
  /\ UNCHANGED <<envVars, queryVars, ghostVars, appVars, cacheVars>>

(* ------------------------------------------------------------------ *)
(* x/env.ts: env(c)                                                     *)
(* ------------------------------------------------------------------ *)

\* what Deno.env.toObject() returns: the variables of the process when it is called
ProcessEnvs ==
  { Obj(<< [key |-> <<"H", "O", "M", "E">>, value |-> Str(<<"/", "a">>)] >>),
    Obj(<< [key |-> <<"H", "O", "M", "E">>, value |-> Str(<<"/", "b">>)] >>) }

TypeError == [type |-> "TypeError"]

\* c.__app of the context #handle constructs: the object literal has no such property
ContextApp == Undefined

\* an env that computes the environment anew on every call: the variant the memoization
\* must exclude
EnvAnew(memo, runtime, processEnv) ==
  IF runtime = "deno"
  THEN [ENV |-> processEnv, outcome |-> "returned", value |-> processEnv]
  ELSE IF ContextApp = Undefined
  THEN [ENV |-> memo, outcome |-> "threw", value |-> TypeError]
  ELSE [ENV |-> ContextApp.env, outcome |-> "returned", value |-> ContextApp.env]

\* env(c): `if (ENV) return ENV`, `ENV = c.runtime === 'deno' ? Deno.env.toObject() :
\* c.__app.env`, `return ENV`; reading `.env` of undefined throws a TypeError before ENV
\* is assigned
Env(memo, runtime, processEnv) ==
  IF Truthy(memo)
  THEN [ENV |-> memo, outcome |-> "returned", value |-> memo]
  ELSE IF runtime = "deno"
  THEN [ENV |-> processEnv, outcome |-> "returned", value |-> processEnv]
  ELSE IF ContextApp = Undefined
  THEN [ENV |-> memo, outcome |-> "threw", value |-> TypeError]
  ELSE [ENV |-> ContextApp.env, outcome |-> "returned", value |-> ContextApp.env]

\* a hook or a handler calls env(c) with its context (`runtime: this.#runtime`)
EnvCall(processEnv) ==
  /\ CanCall
  /\ LET call == Env(ENV, config.runtime, processEnv)
     IN /\ ENV' = call.ENV
        /\ trace' = Append(trace, [ev |-> "env", outcome |-> call.outcome,
                                   value |-> call.value])
  /\ callsLeft' = callsLeft - 1
  /\ UNCHANGED <<pairVars, queryVars, ghostVars, appVars, cacheVars, pc, request, cache, route,
                 idx, running, reading, resVars, err, response, result>>

(* ------------------------------------------------------------------ *)
(* #handle: Parse Query Parameters                                      *)
(* ------------------------------------------------------------------ *)

\* the values of the coerced query
Bool(b) == [type |-> "boolean", value |-> b]
Array(items) == [type |-> "array", items |-> items]
\* the number NaN
NaN == [type |-> "NaN"]

IsDigitChar(c) == \E d \in 0..9 : Digit(d) = c
DigitValue(c) == CHOOSE d \in 0..9 : Digit(d) = c

StartsWith(s, p) == Len(p) <= Len(s) /\ SubSeq(s, 1, Len(p)) = p

Signs == {"+", "-"}
Unsigned(s) == IF s # <<>> /\ s[1] \in Signs THEN Tail(s) ELSE s
Negative(s) == s # <<>> /\ s[1] = "-"

InfinityChars == <<"I", "n", "f", "i", "n", "i", "t", "y">>

\* a decimal literal without sign and exponent: digits with at most one point, and
\* at least one digit
IsDecimalLiteral(s) ==
  /\ \A i \in 1..Len(s) : IsDigitChar(s[i]) \/ s[i] = "."
  /\ Cardinality({i \in 1..Len(s) : s[i] = "."}) <= 1
  /\ \E i \in 1..Len(s) : IsDigitChar(s[i])

\* isNaN(value), that is isNaN(Number(value)), for a string without white space,
\* exponent and radix prefix: the empty string converts to 0
NumberIsNaN(s) ==
  ~(s = <<>> \/ Unsigned(s) = InfinityChars \/ IsDecimalLiteral(Unsigned(s)))

\* isNaN(parseFloat(value)): parseFloat converts the longest prefix that is a decimal
\* literal, and gives NaN when there is none
ParseFloatIsNaN(s) ==
  LET u == Unsigned(s)
  IN ~(\/ u # <<>> /\ IsDigitChar(u[1])
       \/ Len(u) >= 2 /\ u[1] = "." /\ IsDigitChar(u[2])
       \/ StartsWith(u, InfinityChars))

RECURSIVE LeadingDigits(_)
\* the digits a string starts with
LeadingDigits(s) ==
  IF s # <<>> /\ IsDigitChar(s[1]) THEN <<s[1]>> \o LeadingDigits(Tail(s)) ELSE <<>>

RECURSIVE DigitsValue(_)
DigitsValue(digits) ==
  IF digits = <<>> THEN 0
  ELSE 10 * DigitsValue(SubSeq(digits, 1, Len(digits) - 1)) + DigitValue(digits[Len(digits)])

\* parseInt(value): the integer the leading digits denote, NaN when there are none
ParseInt(s) ==
  LET digits == LeadingDigits(Unsigned(s))
  IN IF digits = <<>> THEN NaN
     ELSE Num(IF Negative(s) THEN 0 - DigitsValue(digits) ELSE DigitsValue(digits))

\* value.includes(',')
IncludesComma(s) == \E i \in 1..Len(s) : s[i] = ","

RECURSIVE Split(_)
\* value.split(',')
Split(s) ==
  IF ~IncludesComma(s) THEN <<Str(s)>>
  ELSE LET i == CHOOSE k \in 1..Len(s) : s[k] = "," /\ \A j \in 1..(k - 1) : s[j] # ","
       IN <<Str(SubSeq(s, 1, i - 1))>> \o Split(SubSeq(s, i + 1, Len(s)))

TrueChars == <<"t", "r", "u", "e">>
FalseChars == <<"f", "a", "l", "s", "e">>
UndefinedChars == <<"u", "n", "d", "e", "f", "i", "n", "e", "d">>
NullChars == <<"n", "u", "l", "l">>
HelloChars == <<"h", "e", "l", "l", "o">>

\* the if-chain of the query loop: what is assigned to query[key] for a value
Coerce(value) ==
  IF value = <<>> \/ value = TrueChars THEN Bool(TRUE)
  ELSE IF value = FalseChars THEN Bool(FALSE)
  ELSE IF IncludesComma(value) THEN Array(Split(value))
  ELSE IF ~NumberIsNaN(value) /\ ~ParseFloatIsNaN(value) THEN ParseInt(value)
  ELSE IF value = UndefinedChars THEN Undefined
  ELSE IF value = NullChars THEN Null
  ELSE Str(value)

\* query[key] = v: a key that is present keeps its place, a new one is added last
Assign(q, key, v) ==
  IF \E i \in 1..Len(q.entries) : q.entries[i].key = key
  THEN [q EXCEPT !.entries = [i \in 1..Len(q.entries) |->
                                IF q.entries[i].key = key
                                THEN [key |-> key, value |-> v]
                                ELSE q.entries[i]]]
  ELSE [q EXCEPT !.entries = Append(@, [key |-> key, value |-> v])]

\* the values of search parameters: the words the loop knows, and every string of up
\* to MaxValueLen characters of a small alphabet
Alphabet == {"1", ".", ",", "a"}
Words == {TrueChars, FalseChars, UndefinedChars, NullChars, HelloChars, InfinityChars}
QueryValues == Words \cup UNION {[1..n -> Alphabet] : n \in 0..MaxValueLen}
QueryKeys == {"x", "y"}
SearchParams ==
  UNION {[1..n -> [key : QueryKeys, value : QueryValues]] : n \in 0..MaxParams}

\* one iteration of `for (const [key, value] of url.searchParams)`
ParseQueryParameter ==
  /\ searchParams # <<>>
  /\ LET entry == Head(searchParams)
     IN /\ query' = Assign(query, entry.key, Coerce(entry.value))
        /\ coerced' = [type |-> "coerced", key |-> entry.key, value |-> entry.value,
                       result |-> Coerce(entry.value)]
  /\ searchParams' = Tail(searchParams)
  /\ UNCHANGED <<pairVars, envVars, ghostVars, appVars, cacheVars, pc, request, cache, route, idx, running,
                 reading, resVars, callsLeft, err, response, result, trace>>

(* ------------------------------------------------------------------ *)
(* Specifications                                                       *)
(* ------------------------------------------------------------------ *)

Next ==
  \/ \E prefix \in Prefixes, plugin \in PluginKinds : Use(prefix, plugin)
  \/ \E method \in Methods, pathname \in Paths, origin \in BOOLEAN, acrm \in BOOLEAN :
       Fetch(method, pathname, origin, acrm)
  \/ \E fails \in BOOLEAN : CacheLookup(fails)
  \/ \E outcome \in {"response", "throws", "rejects"} : Route(outcome)
  \/ InvokeHook
  \/ HookReturns
  \/ HooksDone
  \/ \E e \in Thrown : Throws(e)
  \/ \E hOk \in BOOLEAN, qOk \in BOOLEAN, cOk \in BOOLEAN, length \in CookieLengths,
        multipart \in BOOLEAN : Validate(hOk, qOk, cOk, length, multipart)
  \/ \E outcome \in ReadOutcomes, bOk \in BOOLEAN : BodyRead(outcome, bOk)
  \/ InvokeHandler
  \/ \E returned \in Results : HandlerReturns(returned)
  \/ HandlersDone
  \/ \E code \in StatusArgs : ResCode(code)
  \/ ResCookie
  \/ \E arg \in HeaderArgs : ResHeader(arg[1], arg[2])
  \/ \E code \in RedirectCodes : ResRedirect(Destination, code)
  \/ \E code \in OptionalCode : ResBlob(Blob, code)
  \/ \E code \in OptionalCode : ResStream(Stream, code)
  \/ \E code \in OptionalCode : ResFormData(FormData, code)
  \/ \E code \in OptionalCode : ResBuffer(Buffer, code)
  \/ \E json \in Jsons, code \in OptionalCode : ResJson(json, code)
  \/ \E text \in Texts, code \in OptionalCode : ResText(text, code)
  \/ \E outcome \in ReadOutcomes : ReqBuffer(outcome)
  \/ \E outcome \in ReadOutcomes : ReqBlob(outcome)
  \/ \E outcome \in ReadOutcomes : ReqFormData(outcome)
  \/ Format
  \/ \E context \in BOOLEAN : Respond(context)
  \/ \E i \in 1..MaxPending + 1 : CachePut(i)
  \/ \E outcome \in {"response", "rejects"} : Catch(outcome)

Spec == Init /\ [][Next]_vars

\* the same program, with callbacks that call the context more often
SpecRes == InitRes /\ [][Next]_vars

\* the initial states of the specification of the query loop: a request with search
\* parameters reaches the query loop of a route whose schema has a query sub-schema
InitQuery == \E params \in SearchParams : ConstructedFor(BaseConfig, 0, 0, params)

NextQuery == ParseQueryParameter

SpecQuery == InitQuery /\ [][NextQuery]_vars

\* callbacks that call env, on either runtime, and a cache in use
InitEnv ==
  \E sc \in { Scenario(BaseConfig, MaxCalls, 1),
               Scenario([BaseConfig EXCEPT !.runtime = "cloudflare"], MaxCalls, 0),
               Scenario([BaseConfig EXCEPT !.cache = TRUE, !.runtime = "cloudflare"], 0, 0) } :
    Constructed(sc.config, sc.calls, sc.uses)

NextEnv ==
  \/ Next
  \/ \E processEnv \in ProcessEnvs : EnvCall(processEnv)

\* the same program, with callbacks that call env
SpecEnv == InitEnv /\ [][NextEnv]_vars

\* callbacks that call the context, a hook, and a cache in use
InitPair ==
  \E sc \in { Scenario(BaseConfig, MaxPairCalls, 0),
               Scenario(BaseConfig, 0, 1),
               Scenario([BaseConfig EXCEPT !.cache = TRUE, !.runtime = "cloudflare"], 0, 0) } :
    Constructed(sc.config, sc.calls, sc.uses)

\* two calls of fetch, the second made while the first is awaiting; the requests are
\* GET /api and POST /api/users
NextPair ==
  \/ \E r \in {<<"GET", Api>>, <<"POST", ApiUsers>>} : Fetch(r[1], r[2], FALSE, FALSE)
  \/ \E r \in {<<"GET", Api>>, <<"POST", ApiUsers>>} : FetchDuring(r[1], r[2], FALSE, FALSE)
  \/ Resumes
  \/ Use(NoPrefix, Stages)
  \/ CacheLookup(FALSE)
  \/ Route("response")
  \/ InvokeHook
  \/ HookReturns
  \/ HooksDone
  \/ \E multipart \in BOOLEAN : Validate(TRUE, TRUE, TRUE, 0, multipart)
  \/ BodyRead("ok", TRUE)
  \/ InvokeHandler
  \/ \E returned \in Results : HandlerReturns(returned)
  \/ HandlersDone
  \/ \E code \in StatusArgs : ResCode(code)
  \/ \E arg \in HeaderArgs : ResHeader(arg[1], arg[2])
  \/ \E code \in RedirectCodes : ResRedirect(Destination, code)
  \/ \E json \in Jsons, code \in OptionalCode : ResJson(json, code)
  \/ \E text \in Texts, code \in OptionalCode : ResText(text, code)
  \/ Format
  \/ \E context \in BOOLEAN : Respond(context)
  \/ \E i \in 1..MaxPending + 1 : CachePut(i)

SpecPair == InitPair /\ [][NextPair]_vars

(* ------------------------------------------------------------------ *)
(* What a dispatch did, read from its trace and its result              *)
(* ------------------------------------------------------------------ *)

Events == 1..Len(trace)

HandlerRan == \E i \in Events : trace[i].ev = "handler"

HookRan(stage) == \E i \in Events : trace[i].ev = "hook" /\ trace[i].stage = stage

ValidationRejected == \E i \in Events : trace[i].ev = "validate" /\ ~trace[i].ok

Done == pc = "done"

Answered == Done /\ result.type = "resolved"

AnsweredWith(status) == Answered /\ result.response.status = status

IsReadPastDeadline(e) == e.ev = "read" /\ e.outcome = "deadline"

(* ------------------------------------------------------------------ *)
(* Validation and the body reads                                        *)
(* ------------------------------------------------------------------ *)

\* C1: once a validated part of the request (headers, query, cookies or body) fails its
\* sub-schema, no handler and no beforeHandling or beforeResponding hook runs in that
\* dispatch, and the dispatch is answered with status 400.
C1_ValidationRejectionStops ==
  ValidationRejected =>
    /\ ~HandlerRan
    /\ ~HookRan("beforeHandling")
    /\ ~HookRan("beforeResponding")
    /\ Done => AnsweredWith(400)

\* a dispatch that ran a beforeParsing hook, failed validation and was answered with 400
C1_Witness ==
  /\ AnsweredWith(400)
  /\ ValidationRejected
  /\ HookRan("beforeParsing")
  /\ plugins["beforeHandling"] # <<>>

\* C3 (as stated): a request whose cookies header is longer than 1000 characters is
\* answered with status 413, and its cookies are never validated.
C3_CookieOverflowAnswered413 ==
  request.type = "request" /\ request.cookies > CookieLimit =>
    /\ \A i \in Events : ~(trace[i].ev = "validate" /\ trace[i].part = "cookies")
    /\ Done => AnsweredWith(413)

PreflightRequest ==
  /\ request.type = "request"
  /\ request.method = "OPTIONS"
  /\ request.origin
  /\ request.acrm

\* C4 (as stated): an OPTIONS request carrying origin and access-control-request-method
\* is answered with status 204 and no validation, hook or handler runs, whatever routes
\* are registered.
C4_PreflightAlways204 ==
  PreflightRequest => trace = <<>> /\ (Done => AnsweredWith(PreflightCode))

\* C4 (amended): for such a request no validation, hook or handler runs; it is answered
\* with status 204 when the router matches a route for it.
C4_PreflightOfMatchedRoute204 ==
  PreflightRequest =>
    /\ trace = <<>>
    /\ Done /\ RouterMatch(request.method, request.path) # None
         => AnsweredWith(PreflightCode)

\* a preflight answered with 204 although the route validates cookies and a
\* beforeParsing hook is registered for every path
C4_Witness ==
  /\ PreflightRequest
  /\ AnsweredWith(PreflightCode)
  /\ SchemaOf(route.handlers).type = "schema"
  /\ \E i \in 1..Len(plugins["beforeParsing"]) : plugins["beforeParsing"][i].key = Star

\* the first of two GET dispatches in sequence for one key was answered, and every
\* cache write still pending for the key when the second began carries that answer
SecondOfTwo ==
  /\ previous.type = "dispatch"
  /\ previous.result.type = "resolved"
  /\ \A r \in previous.pending : r = previous.result.response

C7_FetchAlwaysResolves == Done => result.type = "resolved"

(* ------------------------------------------------------------------ *)
(* The handler chain and the hooks                                      *)
(* ------------------------------------------------------------------ *)

\* C8: the handlers of the matched route run in the order they were registered in, and
\* once a handler has returned a truthy value no later handler of the route runs.
C8_ChainStopsAtFirstResult ==
  \A i, j \in Events :
    i < j =>
      /\ trace[i].ev = "handler" /\ trace[j].ev = "handler"
           => trace[i].index < trace[j].index
      /\ trace[i].ev = "returned" /\ Truthy(trace[i].value)
           => trace[j].ev # "handler"

\* the first of the two handlers of a route returned a truthy value and the dispatch
\* was answered without the second
C8_Witness ==
  /\ Answered
  /\ route.type = "route"
  /\ \A k \in 1..Len(route.handlers) : route.handlers[k] = Fn
  /\ Len(route.handlers) > 1
  /\ \E i \in Events :
       trace[i].ev = "returned" /\ trace[i].index = 1 /\ Truthy(trace[i].value)

IsPrefix(p, s) == Len(p) <= Len(s) /\ SubSeq(s, 1, Len(p)) = p

\* the prefixes C10 names for a request path
NamedFor(key, pathname) == key = Star \/ key = pathname \/ IsPrefix(key, pathname)

RECURSIVE NamedHooks(_, _)
NamedHooks(list, pathname) ==
  IF list = <<>> THEN <<>>
  ELSE (IF NamedFor(list[1].key, pathname) THEN list[1].hooks ELSE <<>>)
       \o NamedHooks(Tail(list), pathname)

RECURSIVE HooksRun(_, _)
\* the hooks of one stage that were called, read from the first n events of the trace
HooksRun(stage, n) ==
  IF n = 0 THEN <<>>
  ELSE HooksRun(stage, n - 1)
       \o (IF trace[n].ev = "hook" /\ trace[n].stage = stage THEN <<trace[n].id>> ELSE <<>>)

\* C10 (as stated): when the plugin loop of a stage has completed, the hooks of the
\* stage that ran are those registered under `*`, under the request path, or under a
\* prefix of the request path, and no others.
C10_HooksOfEveryMatchingPrefixRun ==
  \A stage \in HookStages :
    pc = StageAfter(stage) =>
      HooksRun(stage, Len(trace)) = NamedHooks(plugins[stage], request.path)

(* ------------------------------------------------------------------ *)
(* The construction of the response                                     *)
(* ------------------------------------------------------------------ *)

\* the response state the formatter was given holds a value a handler returned that is
\* no string and declares a code, no res.* call has set a body, and no location is set
ReturnedDeclaresCode ==
  /\ pc = "respond"
  /\ route.type = "route"
  /\ requiresFormatting
  /\ responseBody.type = "object"
  /\ Truthy(PropCode(responseBody))
  /\ responseHeaders["location"] = Undefined
  /\ responseHeaders["content-type"] = Undefined

\* C2 (as stated): a value returned by a handler that is no string and carries a code n,
\* with no body set through res.*, is answered with status n, content-type
\* application/json and a content-length equal to the length of the serialized body.
C2_DeclaredCodeIsTheStatus ==
  ReturnedDeclaresCode =>
    /\ response.status = PropCode(responseBody).n
    /\ response.headers["content-type"] = Text("application/json; charset=utf-8")
    /\ response.headers["content-length"] = Str(NumToString(Length(response.body)))

\* the response state the formatter was given has a location header that is not empty
LocationSet ==
  /\ pc = "respond"
  /\ responseHeaders["location"].type = "string"
  /\ responseHeaders["location"].chars # <<>>

\* C9 (as stated): whenever the response state has a location header when the
\* formatter runs, the response has no body, and its status is 307 unless a status was
\* set explicitly.
C9_LocationMeansBodyless307 ==
  pc = "respond" /\ responseHeaders["location"] # Undefined =>
    /\ response.body = Null
    /\ statusSetBy # "code" => response.status = RedirectCode

\* C9 (amended): whenever the response state has a location header that is not empty
\* when the formatter runs, the response has no body and the status in force: 307 when
\* res.redirect set it without a code, the default 200 when the header was set through
\* res.header and no status was set, the status set explicitly otherwise.
C9_LocationMeansBodylessCurrentStatus ==
  LocationSet =>
    /\ response.body = Null
    /\ response.status = responseCode
    /\ statusSetBy = "redirect" => response.status = RedirectCode
    /\ statusSetBy = "default" => response.status = DefaultCode

\* a body was staged and res.redirect was called without a code: the response is
\* bodyless with status 307
C9_Witness ==
  /\ LocationSet
  /\ Truthy(responseBody)
  /\ statusSetBy = "redirect"
  /\ response.body = Null
  /\ response.status = RedirectCode

(* ------------------------------------------------------------------ *)
(* The order of the stages                                              *)
(* ------------------------------------------------------------------ *)

\* the stage an event of the trace belongs to; 0 for what a callback does with the context
StageRank(e) ==
  CASE e.ev = "hook" /\ e.stage = "beforeParsing" -> 1
    [] e.ev = "validate" -> 2
    [] e.ev = "read" /\ e.by = "schema" -> 2
    [] e.ev = "hook" /\ e.stage = "beforeHandling" -> 3
    [] e.ev \in {"handler", "returned"} -> 4
    [] e.ev = "hook" /\ e.stage = "beforeResponding" -> 5
    [] OTHER -> 0

\* the stage the dispatch is in, by its position
PositionRank ==
  CASE pc = "beforeParsing" -> 1
    [] pc \in {"validate", "bodyRead"} -> 2
    [] pc = "beforeHandling" -> 3
    [] pc = "handlers" -> 4
    [] pc = "beforeResponding" -> 5
    [] pc \in {"format", "respond"} -> 6
    [] OTHER -> 0

\* C11: within one dispatch the stages run in the order beforeParsing hooks, validation,
\* beforeHandling hooks, handler chain, beforeResponding hooks, formatting: nothing of an
\* earlier stage happens after something of a later one, no callback is still running
\* when validation or formatting starts, and each plugin loop has run all the hooks it
\* selects for the request when the next stage starts.
C11_StagesInOrder ==
  /\ \A i, j \in Events :
       i < j /\ StageRank(trace[i]) # 0 /\ StageRank(trace[j]) # 0
         => StageRank(trace[i]) <= StageRank(trace[j])
  /\ \A i \in Events : PositionRank # 0 => StageRank(trace[i]) <= PositionRank
  /\ pc \in {"validate", "bodyRead", "format", "respond"} => ~running
  /\ pc \in {"validate", "bodyRead"}
       => HooksRun("beforeParsing", Len(trace)) = HooksOf(plugins["beforeParsing"], request.path)
  /\ pc = "handlers"
       => HooksRun("beforeHandling", Len(trace)) = HooksOf(plugins["beforeHandling"], request.path)
  /\ pc = "format"
       => HooksRun("beforeResponding", Len(trace))
            = HooksOf(plugins["beforeResponding"], request.path)

\* a dispatch that went through every stage: a beforeParsing hook, validation, a
\* beforeHandling hook, a handler and a beforeResponding hook, then the formatter
C11_Witness ==
  /\ pc = "respond"
  /\ HookRan("beforeParsing")
  /\ \E i \in Events : trace[i].ev = "validate"
  /\ HookRan("beforeHandling")
  /\ HandlerRan
  /\ HookRan("beforeResponding")

(* ------------------------------------------------------------------ *)
(* The cache                                                            *)
(* ------------------------------------------------------------------ *)

\* one step of fetch seen from the cache: the pipeline is entered for a GET request of
\* an application with a cache on cloudflare only once the lookup was made; at the
\* lookup nothing of the dispatch has run; a lookup that finds a response ends the
\* dispatch with that response, and nothing has run when fetch has returned it
CacheLookupComesFirst ==
  /\ /\ pc' \notin {"idle", "cacheLookup", "done"}
     /\ request'.method = "GET"
     /\ config.cache
     /\ config.runtime = "cloudflare"
     => cache'
  /\ pc' = "cacheLookup" => trace' = <<>> /\ route' = None
  /\ /\ pc = "cacheLookup"
     /\ pc' # "cacheLookup"
     /\ cacheStore[request.path] # None
     /\ result' # Rejected
     => /\ pc' = "done"
        /\ result' = Resolved("cache", cacheStore[request.path])
  /\ pc' = "done" /\ result'.type = "resolved" /\ result'.via = "cache"
     => trace' = <<>> /\ route' = None

\* C12: for a GET request of an application with a cache on a runtime that supports it,
\* the cache lookup comes before route matching, preflight, hooks, validation and
\* handlers, and on a hit fetch returns the cached response and none of them runs.
C12_CacheLookupFirst == [][CacheLookupComesFirst]_vars

\* fetch returned the response the cache holds for the request, and nothing has run
C12_Witness ==
  /\ Answered
  /\ result.via = "cache"
  /\ cacheStore[request.path] = result.response
  /\ trace = <<>>

\* #handle has returned an ok response for a GET request that missed the cache of an
\* application with a cache on a runtime that supports it
OkAfterMiss ==
  /\ pc = "respond"
  /\ request.method = "GET"
  /\ config.cache
  /\ config.runtime = "cloudflare"
  /\ Ok(response)

ThePut == [key |-> request.path, response |-> response]

\* what holds of every step for the cache, apart from the registration of the write
CacheWrittenInBackgroundOnly ==
  /\ pc # "respond" => Len(tasks') <= Len(tasks)
  /\ pc = "respond" /\ pc' = "done" => cacheStore' = cacheStore
  /\ cacheStore' # cacheStore
       => \E i \in 1..Len(tasks) :
            cacheStore' = [cacheStore EXCEPT ![tasks[i].key] = tasks[i].response]
  /\ \A i \in 1..Len(tasks') : Ok(tasks'[i].response)
  /\ \A p \in Paths : cacheStore'[p] # None => Ok(cacheStore'[p])

\* C13 (as stated): when #handle returns an ok response for a GET request that missed
\* the cache, fetch always registers a background write of the response and returns it
\* without waiting for the write; it registers none for a response that is not ok, nor
\* on the error path.
C13_OkAfterMissAlwaysStored ==
  [][/\ pc = "respond" /\ pc' = "done"
       => IF OkAfterMiss
          THEN tasks' = Append(tasks, ThePut) /\ result' = Resolved("handle", response)
          ELSE tasks' = tasks
     /\ CacheWrittenInBackgroundOnly]_vars

\* C13 (amended): the background write is registered when, in addition, fetch was given
\* a context (its third argument); without one nothing is stored.
C13_OkAfterMissStoredGivenContext ==
  [][/\ pc = "respond" /\ pc' = "done"
       => IF OkAfterMiss /\ request'.context
          THEN tasks' = Append(tasks, ThePut) /\ result' = Resolved("handle", response)
          ELSE tasks' = tasks
     /\ CacheWrittenInBackgroundOnly]_vars

\* fetch has returned an ok response whose write to the cache is registered and has
\* not completed
C13_Witness ==
  /\ Answered
  /\ result.via = "handle"
  /\ request.context
  /\ cacheStore[request.path] = None
  /\ \E i \in 1..Len(tasks) :
       tasks[i] = [key |-> request.path, response |-> result.response]

(* ------------------------------------------------------------------ *)
(* The error path                                                       *)
(* ------------------------------------------------------------------ *)

\* {"message":"Something Went Wrong","code":500}
FallbackText ==
  <<"{", "\"", "m", "e", "s", "s", "a", "g", "e", "\"", ":",
    "\"", "S", "o", "m", "e", "t", "h", "i", "n", "g", " ", "W", "e", "n", "t", " ",
    "W", "r", "o", "n", "g", "\"", ",",
    "\"", "c", "o", "d", "e", "\"", ":", "5", "0", "0", "}">>

\* C14: a raised Exception is answered with the Exception's own response and status and
\* the error handler is not called; any other raised value goes to the error handler if
\* one is configured; otherwise the answer is status 500 with the JSON body
\* {message: "Something Went Wrong", code: 500}.
C14_ErrorPrecedence ==
  Done /\ err # None =>
    IF err.type = "Exception"
    THEN /\ result = Resolved("exception", ExceptionResponse(err.code))
         /\ result.response.status = err.code
    ELSE IF config.error
    THEN result.type = "resolved" => result.via = "error"
    ELSE /\ Answered
         /\ result.via = "fallback"
         /\ result.response.status = 500
         /\ result.response.body = Str(FallbackText)

\* a handler raised an Exception in an application with an error handler, and the
\* answer is the response of the Exception
C14_Witness ==
  /\ Answered
  /\ HandlerRan
  /\ err = Exception(403)
  /\ config.error
  /\ result.via = "exception"
  /\ result.response.status = 403

\* the router matches no route for the request of the dispatch
NoRouteMatches ==
  /\ request.type = "request"
  /\ RouterMatch(request.method, request.path) = None

\* C15: when the router matches no route for the request, no hook, validation step or
\* handler runs, and the answer is the response of the not-found handler if one is
\* configured (unless the handler itself fails) and a 404 otherwise.
C15_NotFound ==
  NoRouteMatches =>
    /\ trace = <<>>
    /\ route = None
    /\ pc \in {"cacheLookup", "route", "catch", "done"}
    /\ Answered /\ result.via # "cache" =>
         IF config.notFound
         THEN \/ result = Resolved("notFound", NotFoundHandlerResponse)
              \/ err = Error
         ELSE /\ err = Exception(404)
              /\ result = Resolved("exception", ExceptionResponse(404))
              /\ result.response.status = 404

\* an unmatched request of an application with a hook for every path and no not-found
\* handler was answered with 404
C15_Witness ==
  /\ NoRouteMatches
  /\ Answered
  /\ ~config.notFound
  /\ result.response.status = 404
  /\ \E i \in 1..Len(plugins["beforeParsing"]) : plugins["beforeParsing"][i].key = Star

(* ------------------------------------------------------------------ *)
(* The validation stage                                                 *)
(* ------------------------------------------------------------------ *)

\* C16: in an application without a validator the validation stage is skipped for every
\* request, also for a route with a schema: nothing is validated, the cookies header
\* and the body are not read for it, and no Exception(400) or Exception(413) is raised.
C16_NoValidatorNoValidation ==
  ~config.validator /\ request.type = "request" =>
    /\ \A i \in Events :
         /\ trace[i].ev # "validate"
         /\ ~(trace[i].ev = "read" /\ trace[i].by = "schema")
    /\ pc # "bodyRead"
    /\ reading = "none"
    /\ request.cookies = 0
    /\ err \notin {Exception(400), Exception(413)}

\* a request to a route with a schema, in an application without a validator, went
\* through to its handler and was answered
C16_Witness ==
  /\ ~config.validator
  /\ Answered
  /\ result.via = "handle"
  /\ route.type = "route"
  /\ route.handlers[1].type = "schema"
  /\ HandlerRan

(* ------------------------------------------------------------------ *)
(* Query coercion                                                       *)
(* ------------------------------------------------------------------ *)

RECURSIVE Joined(_)
\* the strings of a list, with a comma between them
Joined(items) ==
  IF Len(items) = 1 THEN items[1].chars
  ELSE items[1].chars \o <<",">> \o Joined(Tail(items))

\* the list of the comma-separated substrings of a value, in order
IsListOf(r, value) ==
  /\ r.type = "array"
  /\ r.items # <<>>
  /\ \A i \in 1..Len(r.items) :
       r.items[i].type = "string" /\ ~IncludesComma(r.items[i].chars)
  /\ Joined(r.items) = value

\* what C17 says the query loop assigns for a value, by the first rule that matches
IsCoercionOf(r, value) ==
  IF value = <<>> \/ value = TrueChars THEN r = Bool(TRUE)
  ELSE IF value = FalseChars THEN r = Bool(FALSE)
  ELSE IF IncludesComma(value) THEN IsListOf(r, value)
  ELSE IF ~NumberIsNaN(value) THEN r.type = "number" /\ r.n \in Int
  ELSE IF value = UndefinedChars THEN r = Undefined
  ELSE IF value = NullChars THEN r = Null
  ELSE r = Str(value)

\* C17 (as stated): the query loop maps every value to one result by the first matching
\* rule: "" or "true" to true, "false" to false, a value with a comma to the list of
\* its comma-separated substrings, a fully numeric value to an integer, "undefined" and
\* "null" to their sentinels, anything else to the unchanged string; and the result is
\* what the query holds for the key.
C17_QueryCoercion ==
  coerced.type = "coerced" =>
    /\ IsCoercionOf(coerced.result, coerced.value)
    /\ \E i \in 1..Len(query.entries) :
         query.entries[i] = [key |-> coerced.key, value |-> coerced.result]

(* ------------------------------------------------------------------ *)
(* The body setters of res                                              *)
(* ------------------------------------------------------------------ *)

BodySetters == {"json", "text", "blob", "buffer", "formData", "stream"}

\* the places of the calls of body setters in the trace
BodyCalls == {i \in Events : trace[i].ev = "set" /\ trace[i].op \in BodySetters}

LastBodyCall == CHOOSE i \in BodyCalls : \A j \in BodyCalls : j <= i

NoHandlerReturnedAValue ==
  \A i \in Events : trace[i].ev = "returned" => ~Truthy(trace[i].value)

NoLocation ==
  ~(/\ responseHeaders["location"].type = "string"
    /\ responseHeaders["location"].chars # <<>>)

\* C18: once a body setter of res (json, text, blob, buffer, formData, stream) has been
\* called in a dispatch, requiresFormatting is false for the rest of it; and when no
\* handler returns a value (and no redirect is staged), the body of the response is the
\* one the last of these calls set, an empty one being no body.
C18_LastBodySetterWins ==
  BodyCalls # {} =>
    /\ ~requiresFormatting
    /\ pc = "respond" /\ NoHandlerReturnedAValue /\ NoLocation
         => response.body = IF Truthy(trace[LastBodyCall].body)
                            THEN trace[LastBodyCall].body
                            ELSE Null

\* two body setters were called with different bodies, and the response has the body
\* of the second
C18_Witness ==
  /\ pc = "respond"
  /\ NoHandlerReturnedAValue
  /\ Cardinality(BodyCalls) = 2
  /\ \E i \in BodyCalls :
       /\ i # LastBodyCall
       /\ Truthy(trace[i].body)
       /\ trace[i].body # trace[LastBodyCall].body
  /\ trace[LastBodyCall].op = "text"
  /\ response.body = trace[LastBodyCall].body
  /\ response.body # Null

\* the event at place k was made by a handler: a handler was called before it and has
\* not returned in between
DuringHandler(k) ==
  \E i \in 1..(k - 1) :
    /\ trace[i].ev = "handler"
    /\ \A m \in (i + 1)..(k - 1) : trace[m].ev # "returned"

NoHandlerAfter(k) == \A j \in Events : j > k => trace[j].ev # "handler"

\* C19 (as stated): after a handler during whose execution json, text, blob, buffer,
\* formData or stream of res was called with a body, or redirect of res was called, no
\* later handler of the chain is called, also when that handler returns nothing.
C19_ChainStopsAfterAnySetter ==
  \A k \in Events :
    /\ trace[k].ev = "set"
    /\ trace[k].op = "redirect" \/ Truthy(trace[k].body)
    /\ DuringHandler(k)
    => NoHandlerAfter(k)

\* the body staged by the calls of body setters among the first n events
StagedBefore(n) ==
  LET calls == {i \in BodyCalls : i < n}
  IN IF calls = {} THEN Null
     ELSE trace[CHOOSE i \in calls : \A j \in calls : j <= i].body

\* C19, the part the code keeps: after a handler at whose return a non-empty body is
\* staged by json, text, blob, buffer, formData or stream of res, no later handler of
\* the chain is called, also when that handler returns nothing.
C19_ChainStopsOnStagedBody ==
  \A r \in Events :
    trace[r].ev = "returned" /\ Truthy(StagedBefore(r)) => NoHandlerAfter(r)

(* ------------------------------------------------------------------ *)
(* The hooks of one prefix                                              *)
(* ------------------------------------------------------------------ *)

\* the hooks use() registered under one prefix for a stage; a hook is named by the
\* number of the use() call that registered it
RegisteredUnder(stage, k) == {plugins[stage][k].hooks[i] : i \in 1..Len(plugins[stage][k].hooks)}

\* the hooks of a set that were called at a stage
RanOf(stage, hooks) ==
  {trace[i].id : i \in {j \in Events : trace[j].ev = "hook" /\ trace[j].stage = stage}} \cap hooks

\* a hook is called in this step
HookStarts ==
  /\ Len(trace') = Len(trace) + 1
  /\ trace'[Len(trace')].ev = "hook"

\* the pipeline goes on to the stage after a plugin loop in this step
LeavesHookStage == pc \in HookStages /\ pc' \notin {pc, "catch"}

HooksOfAPrefixInTurn ==
  /\ HookStarts =>
       LET started == trace'[Len(trace')]
       IN /\ ~running
          /\ \A k \in 1..Len(plugins[started.stage]) :
               started.id \in RegisteredUnder(started.stage, k) =>
                 RanOf(started.stage, RegisteredUnder(started.stage, k))
                   = {h \in RegisteredUnder(started.stage, k) : h < started.id}
  /\ LeavesHookStage =>
       /\ ~running
       /\ \A k \in 1..Len(plugins[pc]) :
            RanOf(pc, RegisteredUnder(pc, k)) \in {{}, RegisteredUnder(pc, k)}

\* C20: a hook is called only when no hook is running, and when exactly the hooks
\* registered before it under its prefix have been called at its stage; the pipeline
\* leaves a plugin loop for the next stage only when no hook is running and the hooks
\* of every prefix have been called all or not at all.
C20_HooksInRegistrationOrderOneAtATime == [][HooksOfAPrefixInTurn]_vars

\* two hooks were registered under the prefix /api, a request for /api was answered,
\* and at the last stage the first registered was called before the second
C20_Witness ==
  /\ Answered
  /\ Len(plugins["beforeResponding"]) = 1
  /\ plugins["beforeResponding"][1].key = Api
  /\ RegisteredUnder("beforeResponding", 1) = {1, 2}
  /\ HooksRun("beforeResponding", Len(trace)) = <<1, 2>>

(* ------------------------------------------------------------------ *)
(* A failed dispatch                                                    *)
(* ------------------------------------------------------------------ *)

\* no hook of a stage and no handler of the route was called twice in the dispatch
CalledAtMostOnce ==
  \A i, j \in Events :
    i < j =>
      /\ trace[i].ev = "hook" /\ trace[j].ev = "hook" =>
           trace[i].stage # trace[j].stage \/ trace[i].id # trace[j].id
      /\ trace[i].ev = "handler" /\ trace[j].ev = "handler" =>
           trace[i].index # trace[j].index

\* a value is thrown in this step of the dispatch
FailureRaised == err' # err /\ err' # None

\* the dispatch has failed and has not been followed by another
Failed == err # None /\ pc \in {"catch", "done"}

FailureEndsTheDispatch ==
  /\ CalledAtMostOnce'
  /\ FailureRaised =>
       /\ pc' = "catch"
       /\ Len(trace') >= Len(trace)
       /\ SubSeq(trace', 1, Len(trace)) = trace
       /\ \A k \in Len(trace) + 1..Len(trace') : trace'[k].ev \in {"validate", "read"}
  /\ Failed =>
       \/ pc' = "catch" /\ trace' = trace /\ response' = response
       \/ pc' = "done" /\ trace' = trace /\ response' = response
                      /\ result'.type = "resolved" => result'.via # "handle"
       \/ pc = "done" /\ pc' \notin {"catch", "done"} /\ err' = None /\ trace' = <<>>

\* C21: no hook and no handler is called twice in a dispatch; a step in which a hook,
\* a validation or a handler throws leads to the catch block and adds at most the records
\* of the validations and the body read of that step; from then on no hook and no handler is
\* called and no response is constructed by the formatter, until fetch has settled from
\* the catch block and another dispatch starts.
C21_FailureEndsTheDispatch == [][FailureEndsTheDispatch]_vars

\* with hooks registered for every request, the first of two handlers threw: fetch
\* settled from the catch block, the second handler and the beforeResponding hooks were
\* not called, and the formatter constructed no response
C21_Witness ==
  /\ Done
  /\ err # None
  /\ route.type = "route"
  /\ Len(route.handlers) = 2
  /\ route.handlers[1] = Fn
  /\ trace # <<>>
  /\ trace[Len(trace)].ev = "handler"
  /\ trace[Len(trace)].index = 1
  /\ \E k \in 1..Len(plugins["beforeResponding"]) : plugins["beforeResponding"][k].key = Star
  /\ HookRan("beforeHandling")
  /\ ~HookRan("beforeResponding")
  /\ response = None

(* ------------------------------------------------------------------ *)
(* The headers of the response                                          *)
(* ------------------------------------------------------------------ *)

\* the formatter constructs the response in this step
Formats == pc = "format" /\ pc' = "respond"

NoCacheControlUnlessCacheable ==
  Formats /\ response'.status \notin {200, 301} =>
    response'.headers["cache-control"] = Undefined

\* C22: a response the formatter constructs with a status other than 200 and 301 has no
\* cache-control header.
C22_NoCacheControlUnlessCacheable == [][NoCacheControlUnlessCacheable]_vars

\* a GET request, whose context starts with a cache-control header, was answered by the
\* formatter with the status 404 a res.* call had set, a body, and no cache-control
C22_Witness ==
  /\ Answered
  /\ result.via = "handle"
  /\ request.method = "GET"
  /\ statusSetBy = "code"
  /\ result.response.status = 404
  /\ result.response.body # Null
  /\ result.response.headers["cache-control"] = Undefined
  /\ HandlerRan

(* ------------------------------------------------------------------ *)
(* A handler that sets a body and returns a value                       *)
(* ------------------------------------------------------------------ *)

\* the handler that returned at place r of the trace had called a body setter of res
SetABodyBefore(r) ==
  \E k \in BodyCalls :
    k < r /\ DuringHandler(k) /\ \A m \in (k + 1)..(r - 1) : trace[m].ev # "returned"

NoCallAfter(r) == \A j \in Events : j > r => trace[j].ev # "set"

\* the body and the headers the automatic rules give a returned value
AutomaticBody(value) == IF value.type = "string" THEN value ELSE Str(JSONStringify(value))
AutomaticType(value) ==
  IF value.type = "string"
  THEN Text("text/plain; charset=utf-8")
  ELSE Text("application/json; charset=utf-8")

\* C23 (as stated): when a handler has called a body setter of res and returns a value
\* that is not empty (and nothing is set on the response afterwards, and no redirect is
\* staged), the response has the returned value as its body, serialized by the automatic
\* rules: a string as it is with content-type text/plain, another value as JSON with
\* content-type application/json, and the content-length of that body.
C23_ReturnedValueIsSerialized ==
  \A r \in Events :
    /\ pc = "respond"
    /\ trace[r].ev = "returned"
    /\ Truthy(trace[r].value)
    /\ SetABodyBefore(r)
    /\ NoCallAfter(r)
    /\ NoLocation
    => /\ response.body = AutomaticBody(trace[r].value)
       /\ response.headers["content-type"] = AutomaticType(trace[r].value)
       /\ response.headers["content-length"]
            = Str(NumToString(Length(AutomaticBody(trace[r].value))))

(* ------------------------------------------------------------------ *)
(* The content-length of the response                                   *)
(* ------------------------------------------------------------------ *)

\* the bodies whose length is known when the response is constructed
HasLength(body) == body.type \in {"string", "blob", "buffer"}

\* the number of characters or bytes of such a body, as the content-length states it
EmittedLength(body) ==
  CASE body.type = "string" -> NumToString(Len(body.chars))
    [] body.type = "blob" -> NumToString(body.size)
    [] body.type = "buffer" -> NumToString(body.byteLength)

\* C25 (as stated): a response the formatter has constructed with a content-length
\* header has a body, and the header states the length of that body; a response without
\* a body has no content-length.
C25_ContentLengthIsBodyLength ==
  pc = "respond" /\ response.headers["content-length"] # Undefined =>
    /\ response.body # Null
    /\ HasLength(response.body)
    /\ response.headers["content-length"] = Str(EmittedLength(response.body))

(* ------------------------------------------------------------------ *)
(* The order of the validation stage                                    *)
(* ------------------------------------------------------------------ *)

PartRank(part) ==
  CASE part = "headers" -> 1
    [] part = "query" -> 2
    [] part = "cookies" -> 3
    [] part = "body" -> 4

Validations == {i \in Events : trace[i].ev = "validate"}

SchemaReads == {i \in Events : trace[i].ev = "read" /\ trace[i].by = "schema"}

\* the sub-schemas of the route's schema that come before the body
PartsBeforeBody ==
  LET schema == route.handlers[1]
  IN {part \in {"headers", "query", "cookies"} :
        \/ part = "headers" /\ schema.headers
        \/ part = "query" /\ schema.query
        \/ part = "cookies" /\ schema.cookies}

\* C26: the sub-schemas are checked in the order headers, query, cookies, body, each at
\* most once; nothing is checked or read after a rejection; and the validation stage
\* reads the request body only for a schema with a body sub-schema, after each of
\* headers, query and cookies that the schema has was checked and passed.
C26_ValidationInOrderBodyLast ==
  /\ \A i, j \in Validations :
       i < j => PartRank(trace[i].part) < PartRank(trace[j].part)
  /\ \A i \in Validations :
       ~trace[i].ok => i = Len(trace)
  /\ \A k \in SchemaReads :
       /\ route.type = "route"
       /\ route.handlers[1].type = "schema"
       /\ route.handlers[1].body # "none"
       /\ \A part \in PartsBeforeBody :
            \E i \in Validations : i < k /\ trace[i].part = part /\ trace[i].ok

\* a request to a route whose schema has headers, query, cookies and a body was rejected
\* on its query after its headers had passed: it was answered with 400, and neither the
\* cookies were checked nor the body read
C26_Witness ==
  /\ AnsweredWith(400)
  /\ route.type = "route"
  /\ route.handlers[1].type = "schema"
  /\ route.handlers[1].body # "none"
  /\ PartsBeforeBody = {"headers", "query", "cookies"}
  /\ Len(trace) = 2
  /\ trace[1].ev = "validate" /\ trace[1].part = "headers" /\ trace[1].ok
  /\ trace[2].ev = "validate" /\ trace[2].part = "query" /\ ~trace[2].ok
  /\ SchemaReads = {}

(* ------------------------------------------------------------------ *)
(* The memoized environment                                             *)
(* ------------------------------------------------------------------ *)

\* env is called in this step
EnvCalled == Len(trace') = Len(trace) + 1 /\ trace'[Len(trace')].ev = "env"

EnvComputedOnceThenKept ==
  EnvCalled =>
    LET call == trace'[Len(trace')]
    IN /\ call.outcome = "returned"
       /\ call.value.type = "object"
       /\ ENV' = call.value
       /\ ENV # Undefined => call.value = ENV

ResponseState ==
  [responseCode |-> responseCode, responseHeaders |-> responseHeaders,
   responseBody |-> responseBody, requiresFormatting |-> requiresFormatting]

ResponseStateOf(locals) ==
  [responseCode |-> locals.responseCode, responseHeaders |-> locals.responseHeaders,
   responseBody |-> locals.responseBody, requiresFormatting |-> locals.requiresFormatting]

\* the other call of fetch takes over in this step
TakesOver == suspended' # suspended

DispatchesKeepTheirOwnState ==
  /\ TakesOver =>
       /\ suspended'.type = "locals"
       /\ ResponseStateOf(suspended') = ResponseState
       /\ suspended'.response = response
       /\ IF suspended = None
          THEN ResponseState' = [responseCode |-> DefaultCode, responseHeaders |-> NoHeaders,
                                 responseBody |-> Null, requiresFormatting |-> TRUE]
          ELSE /\ ResponseState' = ResponseStateOf(suspended)
               /\ response' = suspended.response
               /\ trace' = suspended.trace
  /\ ~TakesOver /\ suspended # None /\ ResponseState' # ResponseState =>
         \/ pc \in ContextStages /\ running /\ callsLeft' = callsLeft - 1
         \/ pc = "handlers" /\ running /\ ~running'
         \/ pc \in {"validate", "bodyRead"} /\ pc' = "beforeHandling"
         \/ pc = "done" /\ trace' = <<>>
  /\ pc = "format" /\ pc' = "respond" =>
       response' = ConstructResponse(responseCode, responseHeaders, responseBody,
                                     requiresFormatting)

\* C24: when a call of fetch takes over from another that is awaiting, the status,
\* headers, body and requiresFormatting flag of the awaiting call, and its response, are
\* kept as they are, and it finds them unchanged when it is resumed; a call that begins
\* has the response state of a new context; while a call of fetch is executing, its
\* response state is changed only by a res.* call of its own callback, by the value its
\* own handler returns and by the construction of its own context; and the formatter
\* makes the response of a dispatch from that dispatch's response state.
C24_DispatchesKeepTheirOwnState == [][DispatchesKeepTheirOwnState]_vars

\* two dispatches overlapped, the handlers of both called res.*, and both were answered
\* by the formatter, each with the status and the body its own handler had set
C24_Witness ==
  /\ Answered
  /\ result.via = "handle"
  /\ suspended.type = "locals"
  /\ suspended.pc = "done"
  /\ suspended.result.type = "resolved"
  /\ suspended.result.via = "handle"
  /\ suspended.callsLeft < maxCalls
  /\ callsLeft < maxCalls
  /\ result.response.status = 404
  /\ suspended.result.response.status = 200
  /\ result.response.body # suspended.result.response.body
  /\ result.response.body # Null
  /\ suspended.result.response.body # Null

====
